---- MODULE Spec2Model ----
(***************************************************************************)
(* A model of uncojohnco/maya-tools: the DAG walker (om2utils/dag/         *)
(* dag_iter.py), the hierarchy duplicator (om2utils/dag/dag_duplicate.py), *)
(* the dependency-graph helpers (om2utils/dg/dg_utils.py, dg_manip.py),    *)
(* the UV-set helper (mayatools/uvs.py) and the parent-insertion helper    *)
(* (om2utils/dag/dag_manip.py).                                            *)
(*                                                                         *)
(* The host application (maya.cmds, OpenMaya) is the environment: a host   *)
(* primitive whose outcome the source does not determine is a              *)
(* nondeterministic choice over the outcomes the host can produce.         *)
(***************************************************************************)
EXTENDS Integers, Sequences, FiniteSets, TLC

VARIABLES
    nodes,       \* ids of the DAG nodes that are alive in the scene
    parent,      \* parent[n]: the parent of node n (World for a top node)
    name,        \* name[n]: the leaf name of node n
    ntype,       \* ntype[n]: the MFn type of node n
    nextId,      \* the next id the host gives a created node (ids are not reused)
    idag,        \* the fields of one IDag instance
    dup,         \* the fields of one HierarchyDuplicator instance
    pre,         \* the scene as it was when the last call started
    dg,          \* the dependency nodes the dg helpers are handed
    visibility,  \* visibility[n]: the value of node n's visibility plug
    uvsets,      \* the UV set names of the mesh, in the host's index order
    uvcurrent,   \* the mesh's current UV set
    xform,       \* xform[n]: the matrix and the pivots of transform n
    last         \* the record of the last call: operation, inputs, outcome

vars == <<nodes, parent, name, ntype, nextId, idag, dup, pre, dg, visibility,
          uvsets, uvcurrent, xform, last>>

sceneVars == <<nodes, parent, name, ntype, nextId>>
dgVars == <<dg, visibility>>
uvVars == <<uvsets, uvcurrent>>

\* ---------------------------------------------------------------- bounds
WalkNodes == 4      \* nodes of the scene the walker is run on
MaxDepthCfg == 2    \* largest depth value given to the walker's depth setters
MaxDgNodes == 3     \* dependency nodes handed to the dg helpers
MaxBatch == 2       \* longest list of handles handed to the visibility setter
MaxUVSets == 3      \* UV sets a mesh can hold
DupNodes == 3       \* nodes of the scene the duplicator starts on
MaxIds == 5         \* node ids the host can give out while duplicating
ParentNodes == 2    \* nodes of the scene the parent-insertion helper starts on
MaxInserts == 2     \* parents inserted in one run

\* ------------------------------------------------------------- the scene
World == 0
None == "None"
NoCall == [op |-> "none"]

kInvalid == "kInvalid"
kTransform == "kTransform"
kMesh == "kMesh"
kWorld == "kWorld"
kDagNode == "kDagNode"
kDependencyNode == "kDependencyNode"

TypeOf(n) == IF n = World THEN kWorld ELSE ntype[n]

\* MObject.hasFn: the node's own type and the function sets every DAG node has.
hasFn(n, t) == t = TypeOf(n) \/ t = kDagNode \/ t = kDependencyNode

\* The children of n in the host's sibling order (creation order).
RECURSIVE SortedSeq(_)
SortedSeq(S) ==
    IF S = {} THEN <<>>
    ELSE LET m == CHOOSE x \in S : \A y \in S : x <= y
         IN <<m>> \o SortedSeq(S \ {m})

ChildSet(n) == {c \in nodes : parent[c] = n}
Children(n) == SortedSeq(ChildSet(n))

RECURSIVE Flatten(_)
Flatten(ss) == IF ss = <<>> THEN <<>> ELSE Head(ss) \o Flatten(Tail(ss))

\* ---------------------------------------------- the host's DAG iterator
kDepthFirst == "kDepthFirst"
kBreadthFirst == "kBreadthFirst"

Item(n, d) == [node |-> n, depth |-> d]

\* MItDag in depth-first order: the root, then each child's subtree in turn.
RECURSIVE DepthFirstItems(_, _)
DepthFirstItems(n, d) ==
    LET cs == Children(n)
    IN <<Item(n, d)>>
         \o Flatten([i \in 1..Len(cs) |-> DepthFirstItems(cs[i], d + 1)])

\* MItDag in breadth-first order: level by level.
RECURSIVE BreadthFirstLevels(_, _)
BreadthFirstLevels(level, d) ==
    IF level = <<>> THEN <<>>
    ELSE [i \in 1..Len(level) |-> Item(level[i], d)]
           \o BreadthFirstLevels(
                Flatten([i \in 1..Len(level) |-> Children(level[i])]), d + 1)

MItDagItems(root, traversal) ==
    IF traversal = kBreadthFirst
    THEN BreadthFirstLevels(<<root>>, 0)
    ELSE DepthFirstItems(root, 0)

\* The filter of MItDag.reset(root, traversal, filterType): kInvalid is no filter.
SingleFilterAccepts(n, t) == t = kInvalid \/ hasFn(n, t)

\* A faulty variant: the list filter looks at the first listed type alone.
ListFilterFirstOnly(n, types, emptyAll) ==
    IF types = <<>> THEN emptyAll ELSE hasFn(n, types[1])

\* The filter of MItDag.reset(MIteratorType, ...): a node of any listed type.
\* What the host yields for a list of no types is not fixed by the source:
\* emptyAll is the host's answer.
ListFilterAccepts(n, types, emptyAll) ==
    IF types = <<>> THEN emptyAll
    ELSE \E i \in 1..Len(types) : hasFn(n, types[i])

\* IDag.doIt, lines 218-224: one type goes to the plain reset, a list of any
\* other length goes through MIteratorType.filterList.
FilterAccepts(n, types, emptyAll) ==
    IF Len(types) = 1
    THEN SingleFilterAccepts(n, types[1])
    ELSE ListFilterAccepts(n, types, emptyAll)

SelectItems(items, types, emptyAll) ==
    SelectSeq(items, LAMBDA it : FilterAccepts(it.node, types, emptyAll))

\* A faulty variant: the exact-depth restriction leaves the configured order alone.
DoItTraversalNotForced(d) == d.traversal_type

\* IDag.doIt, lines 211-216: the exact-depth restriction forces breadth-first
\* order and a limit one past the wanted depth.

DoItTraversal(d) ==
    IF d.yield_only_at_depth # 0 THEN kBreadthFirst ELSE d.traversal_type

DoItLimit(d) ==
    IF d.yield_only_at_depth # 0
    THEN d.yield_only_at_depth + 1
    ELSE d.traversal_depth_max

\* IDag.doIt, lines 231-247: the loop over the iterator's items.
RECURSIVE DoItLoop(_, _, _)
DoItLoop(items, limit, only) ==
    IF items = <<>> THEN <<>>
    ELSE LET it == Head(items)
         IN IF limit # 0 /\ it.depth >= limit THEN <<>>
            ELSE IF only # 0 /\ it.depth < only
                 THEN DoItLoop(Tail(items), limit, only)
                 ELSE <<it.node>> \o DoItLoop(Tail(items), limit, only)

\* IDag.doIt: the sequence of nodes the generator yields.
doIt(d, emptyAll) ==
    DoItLoop(SelectItems(MItDagItems(d.root, DoItTraversal(d)),
                         d.filter_types, emptyAll),
             DoItLimit(d), d.yield_only_at_depth)

\* IDag.__init__, lines 199-204.
IDagInit(root) ==
    [root |-> root,
     traversal_type |-> kDepthFirst,
     traversal_depth_max |-> 0,
     yield_only_at_depth |-> 0,
     filter_types |-> <<kInvalid>>]

DepthValues == 0..MaxDepthCfg

\* The filter lists handed to the filter_types setter.
FilterLists ==
    {<<>>, <<kInvalid>>, <<kMesh>>, <<kTransform>>, <<kMesh, kTransform>>,
     <<kMesh, kWorld>>}

\* The scenes the walker is run on: every tree shape over WalkNodes nodes
\* (a node's parent is created before it), inner nodes being transforms.
WalkParents ==
    {p \in [1..WalkNodes -> 0..(WalkNodes - 1)] : \A n \in 1..WalkNodes : p[n] < n}

WalkTypes(p) ==
    {t \in [1..WalkNodes -> {kTransform, kMesh}] :
        \A n \in 1..WalkNodes :
            (\E c \in 1..WalkNodes : p[c] = n) => t[n] = kTransform}

\* Every subtree shape occurs under node 1 in some scene, every forest under
\* the world: these two roots stand for every root.
WalkRoots == {World, 1}

OtherInit ==
    /\ xform = <<>>
    /\ dup = None
    /\ pre = None
    /\ dg = <<>>
    /\ visibility = <<>>
    /\ uvsets = <<>>
    /\ uvcurrent = None

InitWalk ==
    /\ nodes = 1..WalkNodes
    /\ parent \in WalkParents
    /\ ntype \in WalkTypes(parent)
    /\ name = [n \in 1..WalkNodes |-> "a"]
    /\ nextId = WalkNodes + 1
    /\ \E r \in WalkRoots : idag = IDagInit(r)
    /\ last = NoCall
    /\ OtherInit

WalkUnchanged == UNCHANGED <<sceneVars, dup, pre, dgVars, uvVars, xform>>

\* IDag.traversal_type setter, lines 288-291.
SetTraversalType ==
    /\ \E v \in {kDepthFirst, kBreadthFirst} :
          idag' = [idag EXCEPT !.traversal_type = v]
    /\ last' = NoCall
    /\ WalkUnchanged

\* IDag.traversal_depth_max setter, lines 298-301.
SetTraversalDepthMax ==
    /\ \E v \in DepthValues : idag' = [idag EXCEPT !.traversal_depth_max = v]
    /\ last' = NoCall
    /\ WalkUnchanged

\* IDag.yield_only_at_depth setter, lines 308-311.
SetYieldOnlyAtDepth ==
    /\ \E v \in DepthValues : idag' = [idag EXCEPT !.yield_only_at_depth = v]
    /\ last' = NoCall
    /\ WalkUnchanged

\* IDag.filter_types setter, lines 274-281.
SetFilterTypes ==
    /\ \E v \in FilterLists : idag' = [idag EXCEPT !.filter_types = v]
    /\ last' = NoCall
    /\ WalkUnchanged

\* A caller runs doIt() and consumes the generator to its end.
DoIt ==
    /\ \E emptyAll \in BOOLEAN :
          last' = [op |-> "doIt", yielded |-> doIt(idag, emptyAll)]
    /\ UNCHANGED idag
    /\ WalkUnchanged

NextWalk ==
    \/ SetTraversalType
    \/ SetTraversalDepthMax
    \/ SetYieldOnlyAtDepth
    \/ SetFilterTypes
    \/ DoIt

SpecWalk == InitWalk /\ [][NextWalk]_vars

\* ------------------------------------------------- claims on the walker
Range(s) == {s[i] : i \in DOMAIN s}
NoDuplicates(s) == \A i, j \in DOMAIN s : s[i] = s[j] => i = j

\* The path of ids from the world down to n.
RECURSIVE PathTo(_)
PathTo(n) == IF n = World THEN <<World>> ELSE PathTo(parent[n]) \o <<n>>

IsUnder(root, n) ==
    LET p == PathTo(n) r == PathTo(root)
    IN Len(r) <= Len(p) /\ p[Len(r)] = root

DepthUnder(root, n) == Len(PathTo(n)) - Len(PathTo(root))

NodesUnder(root) == {n \in nodes \cup {World} : IsUnder(root, n)}
NodesAtDepth(root, k) == {n \in NodesUnder(root) : DepthUnder(root, n) = k}

\* Pre-order: an ancestor comes before its descendants, an earlier sibling's
\* subtree before a later sibling's.
LexBefore(p, q) ==
    \/ Len(p) < Len(q) /\ \A i \in 1..Len(p) : p[i] = q[i]
    \/ \E i \in 1..Len(p) :
          /\ i <= Len(q)
          /\ p[i] < q[i]
          /\ \A j \in 1..(i - 1) : p[j] = q[j]

InPreOrder(s) ==
    \A i, j \in DOMAIN s : i < j => LexBefore(PathTo(s[i]), PathTo(s[j]))

Walked == last.op = "doIt"
DefaultFilter == idag.filter_types = <<kInvalid>>

\* C5: with maximum depth 1, no exact depth and no type filter, the walk of a
\* root with children (depth 1) and grandchildren (depth 2) yields the
\* depth-1 nodes only: every child of the root is yielded and no grandchild.
C5_MaxDepthOneYieldsChildren ==
    ( /\ Walked
      /\ idag.traversal_depth_max = 1
      /\ idag.yield_only_at_depth = 0
      /\ DefaultFilter
      /\ NodesAtDepth(idag.root, 2) # {} )
    => /\ NodesAtDepth(idag.root, 1) \subseteq Range(last.yielded)
       /\ \A n \in Range(last.yielded) : DepthUnder(idag.root, n) <= 1

\* C6: with the exact depth set to 2 the walk yields exactly the nodes at
\* depth 2 under the root, each once, level by level, whatever traversal
\* order and maximum depth are configured.
C6_ExactDepthTwo ==
    (Walked /\ idag.yield_only_at_depth = 2 /\ DefaultFilter)
    => /\ Range(last.yielded) = NodesAtDepth(idag.root, 2)
       /\ NoDuplicates(last.yielded)
       /\ InPreOrder(last.yielded)

\* C6 witness: depth-first order is configured, a node at depth 3 comes
\* before a node at depth 2 in depth-first order, and that node is yielded.
C6_Witness ==
    /\ Walked
    /\ idag.yield_only_at_depth = 2
    /\ DefaultFilter
    /\ idag.traversal_type = kDepthFirst
    /\ \E a \in NodesAtDepth(idag.root, 3) :
       \E b \in Range(last.yielded) : LexBefore(PathTo(a), PathTo(b))

Matches(n, types) ==
    types = <<kInvalid>> \/ \E i \in 1..Len(types) : hasFn(n, types[i])

NoDepthLimits == idag.traversal_depth_max = 0 /\ idag.yield_only_at_depth = 0

\* C7 as amended: with no depth limits and a filter list that is not empty,
\* the walk yields exactly the nodes under the root that match any type of
\* the list, each once, in pre-order when the order is depth-first; the
\* default list [kInvalid] filters nothing out.
C7_FilterAnyOf ==
    (Walked /\ NoDepthLimits /\ idag.filter_types # <<>>)
    => /\ Range(last.yielded)
            = {n \in NodesUnder(idag.root) : Matches(n, idag.filter_types)}
       /\ NoDuplicates(last.yielded)
       /\ idag.traversal_type = kDepthFirst => InPreOrder(last.yielded)

\* C7 witness: a list of two types yields nodes of two types and leaves a
\* node under the root out.
C7_Witness ==
    /\ Walked
    /\ NoDepthLimits
    /\ Len(idag.filter_types) = 2
    /\ \E a, b \in Range(last.yielded) : TypeOf(a) # TypeOf(b)
    /\ NodesUnder(idag.root) \ Range(last.yielded) # {}

\* C7 as written: the same, and an empty list filters nothing out.
C7_EmptyFilterYieldsAll ==
    (Walked /\ NoDepthLimits)
    => Range(last.yielded)
          = {n \in NodesUnder(idag.root) :
                idag.filter_types = <<>> \/ Matches(n, idag.filter_types)}

\* C13: with a maximum depth d > 0, no exact depth, depth-first order and no
\* type filter, the walk yields every node under the root whose depth is
\* below d, the siblings that come after a subtree deeper than d included:
\* the set of nodes yielded is the one breadth-first order yields.
C13_DepthLimitPrunes ==
    ( /\ Walked
      /\ idag.traversal_depth_max > 0
      /\ idag.yield_only_at_depth = 0
      /\ idag.traversal_type = kDepthFirst
      /\ DefaultFilter )
    => /\ Range(last.yielded)
            = {n \in NodesUnder(idag.root) :
                  DepthUnder(idag.root, n) < idag.traversal_depth_max}
       /\ Range(last.yielded)
            = Range(doIt([idag EXCEPT !.traversal_type = kBreadthFirst], TRUE))

\* ------------------------------------------------- names and dg_utils
\* A string is the sequence of its tokens: a name, or one of the separators
\* "|" (path), ":" (namespace) and "." (attribute).
RECURSIVE Split(_, _)
Split(s, sep) ==
    IF \A i \in DOMAIN s : s[i] # sep THEN <<s>>
    ELSE LET i == CHOOSE k \in DOMAIN s :
                      s[k] = sep /\ \A j \in 1..(k - 1) : s[j] # sep
         IN <<SubSeq(s, 1, i - 1)>> \o Split(SubSeq(s, i + 1, Len(s)), sep)

RECURSIVE Join(_, _)
Join(parts, sep) ==
    IF Len(parts) = 0 THEN <<>>
    ELSE IF Len(parts) = 1 THEN parts[1]
    ELSE parts[1] \o <<sep>> \o Join(Tail(parts), sep)

LastOf(parts) == parts[Len(parts)]

\* MNamespace.stripNamespaceFromName: the namespaces go from each element
\* of a path.
stripNamespaceFromName(s) ==
    LET parts == Split(s, "|")
    IN Join([i \in 1..Len(parts) |-> LastOf(Split(parts[i], ":"))], "|")

\* A faulty variant: the namespace is left on the name.
get_shortname_keeps_namespace(fullpath) == LastOf(Split(fullpath, "|"))

\* dg_utils.get_shortname for a string, lines 46-47 and 60.
get_shortname(fullpath) == LastOf(Split(stripNamespaceFromName(fullpath), "|"))

\* The nodes the dg helpers are handed: node n's namespace, leaf name and
\* group follow from its id; whether it is a DAG node and whether its
\* visibility plug is locked are the scene's.
DgNodes == 1..MaxDgNodes
DgLeaf(n) == IF (n - 1) % 4 < 2 THEN "a" ELSE "b"
DgNamespace(n) == IF n % 2 = 0 THEN "n" ELSE ""
DgGroup(n) == IF n % 3 = 0 THEN "g" ELSE ""

\* MFnDependencyNode.name(): the leaf name with its namespace.
DgName(n) ==
    (IF DgNamespace(n) = "" THEN <<>> ELSE <<DgNamespace(n), ":">>) \o <<DgLeaf(n)>>

\* MDagPath.fullPathName().
DgFullPath(n) ==
    (IF DgGroup(n) = "" THEN <<>> ELSE <<"|", DgGroup(n)>>) \o <<"|">> \o DgName(n)

\* MPlug.name(): the node's name, or a path to it where the host needs one
\* to tell it from another node, then the attribute.
PlugName(n, form, attr) ==
    (IF form = "path" THEN DgFullPath(n) ELSE DgName(n)) \o <<".", attr>>

IsDag(n) == dg[n].kind = "dag"
HasPlug(n, attr) == attr = "visibility" /\ IsDag(n)
Settable(n) == IsDag(n) /\ ~dg[n].locked

\* dg_manip._set_visibility, lines 47-66: the loop over the handles. vis is
\* the plugs' values so far; form is how the host spells the plugs' names.
RECURSIVE SetVisibilityLoop(_, _, _, _)
SetVisibilityLoop(mobjs, nodes_to_show, vis, form) ==
    IF mobjs = <<>> THEN [status |-> "returned", vis |-> vis]
    ELSE LET mobj == Head(mobjs)
         IN IF ~HasPlug(mobj, "visibility")
            THEN [status |-> "raised", vis |-> vis]      \* findPlug, line 50
            ELSE LET plug == PlugName(mobj, form, "visibility")
                     node_sn == get_shortname(Head(Split(plug, ".")))
                     choice == node_sn \in nodes_to_show
                     set == IF dg[mobj].locked
                            THEN vis                     \* RuntimeError, logged
                            ELSE [vis EXCEPT ![mobj] = choice]
                 IN SetVisibilityLoop(Tail(mobjs), nodes_to_show, set, form)

\* dg_manip._set_visibility, line 42: set(show_nodes or []).
\* An argument left out is [given |-> FALSE]; a collection is its set of names.
NodesToShow(show_nodes) == IF show_nodes.given THEN show_nodes.names ELSE {}

\* dg_manip.set_visibility_by_shortname, lines 93-102.
set_visibility_by_shortname(mobjs, show_nodes, form) ==
    SetVisibilityLoop(mobjs, NodesToShow(show_nodes), visibility, form)

\* dg_utils.get_fullpath, lines 63-82. A handle is its class and its node.
HasHasFn(cls) == cls \in {"MDagPath", "MObject"}
HandleHasFn(h, fn) ==
    IF fn = kDagNode THEN IsDag(h.node) ELSE fn = kDependencyNode

\* What a call gives back: a string, None, or an exception.
Returned(v) == [status |-> "returned", value |-> v, error |-> ""]
ReturnedNone == [status |-> "returned_none", value |-> <<>>, error |-> ""]
Raised(e) == [status |-> "raised", value |-> <<>>, error |-> e]

get_fullpath(h) ==
    IF h.cls = "MDagPath"
    THEN IF HandleHasFn(h, kDagNode)
         THEN Returned(DgFullPath(h.node))
         ELSE ReturnedNone                           \* falls off the end
    ELSE IF h.cls = "MObject"
    THEN IF HandleHasFn(h, kDagNode)
         THEN Returned(DgFullPath(h.node))
         ELSE ReturnedNone                           \* falls off the end
    ELSE IF ~HasHasFn(h.cls)
    THEN Raised("AttributeError")
    ELSE IF HandleHasFn(h, kDependencyNode)
    THEN Returned(DgName(h.node))
    ELSE Raised("ValueError")

\* The handles a caller can hold: a DAG path to a DAG node, an object handle
\* to any node, and values that are no node handle at all.
Handles ==
    {h \in [cls : {"MDagPath", "MObject", "MObjectHandle", "str"}, node : DgNodes] :
        h.cls = "MDagPath" => IsDag(h.node)}

BatchesOf(k) == UNION {[1..m -> DgNodes] : m \in 0..k}
ShowNames == {<<"a">>, <<"b">>, <<"n", ":", "a">>}
ShowLists ==
    {[given |-> FALSE, names |-> {}]}
      \cup {[given |-> TRUE, names |-> S] : S \in SUBSET ShowNames}

InitDg ==
    /\ dg \in [DgNodes -> {[kind |-> "dag", locked |-> FALSE],
                           [kind |-> "dag", locked |-> TRUE],
                           [kind |-> "dg", locked |-> FALSE]}]
    /\ visibility \in [DgNodes -> BOOLEAN]
    /\ last = NoCall
    /\ nodes = {}
    /\ parent = <<>>
    /\ name = <<>>
    /\ ntype = <<>>
    /\ nextId = 1
    /\ idag = None
    /\ dup = None
    /\ pre = None
    /\ uvsets = <<>>
    /\ uvcurrent = None
    /\ xform = <<>>

DgUnchanged == UNCHANGED <<sceneVars, idag, dup, pre, uvVars, dg, xform>>

\* A caller hands a list of handles and a show-only collection to
\* set_visibility_by_shortname.
SetVisibilityByShortname ==
    /\ last = NoCall
    /\ \E mobjs \in BatchesOf(MaxBatch), show \in ShowLists, form \in {"name", "path"} :
          LET r == set_visibility_by_shortname(mobjs, show, form)
          IN /\ visibility' = r.vis
             /\ last' = [op |-> "set_visibility_by_shortname", mobjs |-> mobjs,
                         show |-> show, status |-> r.status]
    /\ DgUnchanged

\* A caller asks for the full path of a handle.
GetFullpath ==
    /\ last = NoCall
    /\ \E h \in Handles :
          LET r == get_fullpath(h)
          IN last' = [op |-> "get_fullpath", handle |-> h, ret |-> r]
    /\ UNCHANGED visibility
    /\ DgUnchanged

\* The caller is done with the outcome of the last call.
DgReturn ==
    /\ last # NoCall
    /\ last' = NoCall
    /\ UNCHANGED visibility
    /\ DgUnchanged

NextDg ==
    \/ SetVisibilityByShortname
    \/ GetFullpath
    \/ DgReturn

SpecDg == InitDg /\ [][NextDg]_vars

\* ----------------------------------------------- claims on the dg helpers
\* The node's short name: its leaf name, without namespace and path.
ShortNameOf(n) == <<DgLeaf(n)>>

SetVisibilityCalled == last.op = "set_visibility_by_shortname"

\* C3: after set_visibility_by_shortname returns, each settable node of the
\* list is visible if and only if its short name is in showOnly; with
\* showOnly absent or empty every settable node of the list is hidden.
C3_VisibleIffShortNameShown ==
    (SetVisibilityCalled /\ last.status = "returned")
    => \A i \in DOMAIN last.mobjs :
          LET n == last.mobjs[i]
          IN Settable(n)
             => /\ visibility[n]
                     <=> (last.show.given /\ ShortNameOf(n) \in last.show.names)
                /\ (~last.show.given \/ last.show.names = {}) => ~visibility[n]

\* C3 witness: a call returned having shown a node in a namespace by its
\* short name and hidden another node.
C3_Witness ==
    /\ SetVisibilityCalled
    /\ last.status = "returned"
    /\ \E i, j \in DOMAIN last.mobjs :
          /\ DgNamespace(last.mobjs[i]) # ""
          /\ Settable(last.mobjs[i])
          /\ visibility[last.mobjs[i]]
          /\ Settable(last.mobjs[j])
          /\ ~visibility[last.mobjs[j]]

\* C4: a failure on one handle of the batch never aborts the batch: the call
\* returns without raising, and every settable handle of the list has been
\* set as if no failure had occurred.
C4_FailureNeverAborts ==
    SetVisibilityCalled
    => /\ last.status = "returned"
       /\ \A i \in DOMAIN last.mobjs :
             LET n == last.mobjs[i]
             IN Settable(n)
                => (visibility[n]
                      <=> (last.show.given /\ ShortNameOf(n) \in last.show.names))

GetFullpathCalled == last.op = "get_fullpath"

\* C10: get_fullpath returns the full scene path for a DAG path or an object
\* handle of a DAG node, the dependency node's name for an object handle of
\* a node that is no DAG node, and raises an invalid-argument error for any
\* other kind of handle; it returns nothing empty for a supported handle.
C10_FullpathOrName ==
    GetFullpathCalled
    => LET h == last.handle
       IN IF h.cls \in {"MDagPath", "MObject"}
          THEN /\ last.ret.status = "returned"
               /\ last.ret.value # <<>>
               /\ last.ret.value = IF IsDag(h.node) THEN DgFullPath(h.node)
                                                    ELSE DgName(h.node)
          ELSE last.ret.status = "raised" /\ last.ret.error = "ValueError"

\* --------------------------------------------------- the UV-set helper
UVNameSeq == <<"map1", "uv2", "uv3", "uv4", "uv5">>
UVNames == {UVNameSeq[i] : i \in 1..MaxUVSets}

\* UVActions.uvset_exists, lines 29-32.
uvset_exists(uvset) == uvset \in Range(uvsets)

Without(s, x) == SelectSeq(s, LAMBDA y : y # x)
FirstOrNone(s) == IF s = <<>> THEN None ELSE s[1]

\* UVActions.uvset_delete, lines 34-45. The host is asked to delete a set
\* while `current` is the mesh's current set; asked to delete the current
\* set itself it either refuses (refuses = TRUE) or deletes it and makes
\* another set current.
uvset_delete(uvset, refuses) ==
    IF uvset_exists(uvset)
    THEN LET current == uvsets[1]        \* uvset_current_switch(uvset_default)
         IN IF current = uvset /\ refuses
            THEN [status |-> "raised", issued |-> TRUE, atDelete |-> current,
                  sets |-> uvsets, current |-> current]
            ELSE [status |-> "returned", issued |-> TRUE, atDelete |-> current,
                  sets |-> Without(uvsets, uvset),
                  current |-> IF current = uvset
                              THEN FirstOrNone(Without(uvsets, uvset))
                              ELSE current]
    ELSE [status |-> "returned", issued |-> FALSE, atDelete |-> uvcurrent,
          sets |-> uvsets, current |-> uvcurrent]

UVSetLists ==
    {s \in UNION {[1..m -> UVNames] : m \in 0..MaxUVSets} : NoDuplicates(s)}

InitUV ==
    /\ uvsets \in UVSetLists
    /\ uvcurrent \in IF uvsets = <<>> THEN {None} ELSE Range(uvsets)
    /\ last = NoCall
    /\ nodes = {}
    /\ parent = <<>>
    /\ name = <<>>
    /\ ntype = <<>>
    /\ nextId = 1
    /\ idag = None
    /\ dup = None
    /\ pre = None
    /\ dg = <<>>
    /\ visibility = <<>>
    /\ xform = <<>>

UVUnchanged == UNCHANGED <<sceneVars, idag, dup, pre, dgVars, xform>>

UvsetDelete ==
    /\ \E uvset \in UVNames, refuses \in BOOLEAN :
          LET r == uvset_delete(uvset, refuses)
          IN /\ uvsets' = r.sets
             /\ uvcurrent' = r.current
             /\ last' = [op |-> "uvset_delete", uvset |-> uvset,
                         status |-> r.status, issued |-> r.issued,
                         atDelete |-> r.atDelete, before |-> uvsets]
    /\ UVUnchanged

\* UVActions.uvset_current_switch, lines 26-27: the host makes an existing
\* set current; given a name that is no set it refuses or does nothing.
UvsetCurrentSwitch ==
    /\ \E uvset \in UVNames, refuses \in BOOLEAN :
          /\ uvcurrent' = IF uvset_exists(uvset) THEN uvset ELSE uvcurrent
          /\ last' = [op |-> "uvset_current_switch", uvset |-> uvset,
                      status |-> IF ~uvset_exists(uvset) /\ refuses
                                 THEN "raised" ELSE "returned"]
    /\ UNCHANGED uvsets
    /\ UVUnchanged

\* UVActions.uvset_copy, lines 20-24: the host copies one set's coordinates
\* to another, creating the destination when createNewMap is given; it
\* refuses a source that is no set, and a destination that is no set and is
\* not to be created.
UvsetCopy ==
    /\ \E src \in UVNames, dest \in UVNames, createNewMap \in BOOLEAN :
          LET creates == uvset_exists(src) /\ ~uvset_exists(dest) /\ createNewMap
              refused == ~uvset_exists(src) \/ (~uvset_exists(dest) /\ ~createNewMap)
          IN /\ uvsets' = IF creates THEN Append(uvsets, dest) ELSE uvsets
             /\ last' = [op |-> "uvset_copy", src |-> src, dest |-> dest,
                         status |-> IF refused THEN "raised" ELSE "returned"]
    /\ UNCHANGED uvcurrent
    /\ UVUnchanged

NextUV ==
    \/ UvsetDelete
    \/ UvsetCurrentSwitch
    \/ UvsetCopy

SpecUV == InitUV /\ [][NextUV]_vars

\* C8: when the host delete is issued the mesh's current UV set is an
\* existing set other than the one being deleted; when the set to delete is
\* the first enumerated set (the sole set included) the call raises the
\* host's error and deletes nothing.
C8_CurrentIsAnotherSetAtDelete ==
    (last.op = "uvset_delete" /\ last.issued)
    => /\ last.atDelete \in Range(last.before)
       /\ last.atDelete # last.uvset
       /\ last.uvset = last.before[1]
            => last.status = "raised" /\ uvsets = last.before

\* ------------------------------------------------ the hierarchy duplicator
NoNode == -1                \* no node: None where a node is expected
NoPath == <<None>>          \* no path: None where a path is expected
NameSeq == <<"a", "b", "c", "d", "e", "f", "g", "h">>
Ids == 1..MaxIds

Scene == [nodes |-> nodes, parent |-> parent, name |-> name, ntype |-> ntype,
          nextId |-> nextId]

\* The graph of a scene: what a caller can see of it.
Graph(sc) ==
    [nodes |-> sc.nodes,
     parent |-> [n \in sc.nodes |-> sc.parent[n]],
     name |-> [n \in sc.nodes |-> sc.name[n]]]

\* MDagPath.fullPathName(): the names from the top of the scene down to n.
RECURSIVE ScPath(_, _)
ScPath(sc, n) ==
    IF n = World THEN <<>> ELSE ScPath(sc, sc.parent[n]) \o <<sc.name[n]>>

\* The nodes a path names: the world for the empty path.
Resolve(sc, path) ==
    IF path = <<>> THEN {World} ELSE {n \in sc.nodes : ScPath(sc, n) = path}

\* maya.cmds.objExists(path).
objExists(sc, path) == Resolve(sc, path) # {}

\* dg_utils.as_mObject, lines 30-35: MSelectionList.add raises for a path
\* that names no node.
as_mObject(sc, path) == CHOOSE n \in Resolve(sc, path) : TRUE

RECURSIVE ScSubtree(_, _)
ScSubtree(sc, n) ==
    {n} \cup UNION {ScSubtree(sc, c) : c \in {x \in sc.nodes : sc.parent[x] = n}}

\* maya.cmds.delete(path): the node goes with everything under it.
HostDelete(sc, n) == [sc EXCEPT !.nodes = sc.nodes \ ScSubtree(sc, n)]

IndexIn(seq, x) == CHOOSE i \in DOMAIN seq : seq[i] = x

\* The name the host gives a node created under p: the first one no child
\* of p carries.
FreshName(sc, p) ==
    LET taken == {sc.name[c] : c \in {x \in sc.nodes : sc.parent[x] = p}}
    IN NameSeq[CHOOSE i \in DOMAIN NameSeq :
                  NameSeq[i] \notin taken
                  /\ \A j \in 1..(i - 1) : NameSeq[j] \in taken]

\* maya.cmds.duplicate(src): a copy of the subtree of src, its root under
\* the parent hparent the host picks and under a name of its own.
HostDuplicate(sc, src, hparent) ==
    LET old == SortedSeq(ScSubtree(sc, src))
        new(n) == sc.nextId + IndexIn(old, n) - 1
        copies == {new(n) : n \in Range(old)}
        orig(m) == old[m - sc.nextId + 1]
    IN [sc EXCEPT
          !.nodes = sc.nodes \cup copies,
          !.parent = [m \in DOMAIN sc.parent |->
                         IF m \notin copies THEN sc.parent[m]
                         ELSE IF orig(m) = src THEN hparent
                         ELSE new(sc.parent[orig(m)])],
          !.name = [m \in DOMAIN sc.name |->
                       IF m \notin copies THEN sc.name[m]
                       ELSE IF orig(m) = src THEN FreshName(sc, hparent)
                       ELSE sc.name[orig(m)]],
          !.ntype = [m \in DOMAIN sc.ntype |->
                        IF m \in copies THEN sc.ntype[orig(m)] ELSE sc.ntype[m]],
          !.nextId = sc.nextId + Len(old)]

\* HierarchyDuplicator.__init__, lines 17-24.
DuplicatorInit(source_path) ==
    [source_path |-> source_path,
     destination_path |-> NoPath,
     replace |-> TRUE,
     new_name |-> None,
     result_mobj |-> NoNode]

\* The outcome of a step: the scene and the instance after it, and whether
\* it raised.
Ok(sc, d) == [status |-> "ok", sc |-> sc, d |-> d]
Raise(sc, d) == [status |-> "raised", sc |-> sc, d |-> d]

\* HierarchyDuplicator._src_is_valid_mobject_handle and source_mobjhandle,
\* lines 82-84 and 90-93: the source path is resolved afresh; a path that
\* names no node raises in as_mObject.
SourceResolves(sc, d) == objExists(sc, d.source_path) /\ d.source_path # <<>>

\* HierarchyDuplicator._setup, lines 26-33. Asked whether None exists the
\* host answers no or raises (h.noneRaises).
Setup(sc, d, h) ==
    IF d.destination_path = NoPath
    THEN IF h.noneRaises THEN Raise(sc, d) ELSE Ok(sc, d)
    ELSE IF objExists(sc, d.destination_path) /\ d.replace
         THEN Ok(HostDelete(sc, as_mObject(sc, d.destination_path)), d)
         ELSE Ok(sc, d)

\* HierarchyDuplicator._duplicate, lines 35-39. The host duplicate can fail
\* (h.duplicateFails) and parents the copy under the source's parent or
\* under the world (h.toWorld).
DuplicateStep(sc, d, h) ==
    IF ~SourceResolves(sc, d) \/ h.duplicateFails THEN Raise(sc, d)
    ELSE LET src == as_mObject(sc, d.source_path)
             hparent == IF h.toWorld THEN World ELSE sc.parent[src]
         IN Ok(HostDuplicate(sc, src, hparent),
               [d EXCEPT !.result_mobj = sc.nextId])

\* HierarchyDuplicator.rename, lines 70-80. The check before the edit is of
\* the source's handle. Asked to rename a node that is no longer in the
\* scene the host raises or does nothing (h.staleRaises); it raises for a
\* name a sibling carries, and can fail otherwise (h.renameFails).
Rename(sc, d, newname, h) ==
    IF d.result_mobj = NoNode THEN Raise(sc, d)         \* None has no object()
    ELSE IF ~SourceResolves(sc, d) THEN Raise(sc, d)
    ELSE IF d.result_mobj \notin sc.nodes
         THEN IF h.staleRaises THEN Raise(sc, d) ELSE Ok(sc, d)
    ELSE IF h.renameFails
            \/ \E c \in sc.nodes \ {d.result_mobj} :
                  sc.parent[c] = sc.parent[d.result_mobj] /\ sc.name[c] = newname
         THEN Raise(sc, d)
         ELSE Ok([sc EXCEPT !.name[d.result_mobj] = newname], d)

\* HierarchyDuplicator.duplicate, lines 41-47.
Duplicate(sc, d, h) ==
    LET a == Setup(sc, d, h)
    IN IF a.status = "raised" THEN a
       ELSE LET b == DuplicateStep(a.sc, a.d, h)
            IN IF b.status = "raised" \/ b.d.new_name = None THEN b
               ELSE Rename(b.sc, b.d, b.d.new_name, h)

\* HierarchyDuplicator._parent_under, lines 56-68: the node handed to
\* reparentNode is the source. The edit is one MDagModifier.doIt, which can
\* fail (h.reparentFails) and then changes nothing.
ParentUnder(sc, d, parent_path, h) ==
    IF ~objExists(sc, parent_path) THEN Raise(sc, d)
    ELSE IF ~SourceResolves(sc, d) \/ h.reparentFails THEN Raise(sc, d)
    ELSE Ok([sc EXCEPT !.parent[as_mObject(sc, d.source_path)]
                          = as_mObject(sc, parent_path)], d)

\* The parent of the source when the call starts (line 51).
SourceParent(sc, d) == sc.parent[as_mObject(sc, d.source_path)]

\* HierarchyDuplicator.duplicate_under_same_parent, lines 49-54.
DuplicateUnderSameParent(sc, d, h) ==
    IF ~SourceResolves(sc, d) THEN Raise(sc, d)
    ELSE LET parent_path == ScPath(sc, SourceParent(sc, d))
             a == Duplicate(sc, d, h)
         IN IF a.status = "raised" THEN a
            ELSE ParentUnder(a.sc, a.d, parent_path, h)

\* What the host does where the source leaves it open: the choices a call
\* to duplicate(), to duplicate_under_same_parent() and to rename() meets.
HostChoice(noneRaises, duplicateFails, toWorld, renameFails, staleRaises, reparentFails) ==
    [noneRaises |-> noneRaises, duplicateFails |-> duplicateFails,
     toWorld |-> toWorld, renameFails |-> renameFails,
     staleRaises |-> staleRaises, reparentFails |-> reparentFails]

DuplicateChoices ==
    {HostChoice(a, b, c, FALSE, FALSE, FALSE) : a, b, c \in BOOLEAN}
SameParentChoices ==
    {HostChoice(a, b, c, FALSE, FALSE, e) : a, b, c, e \in BOOLEAN}
RenameChoices ==
    {HostChoice(FALSE, FALSE, FALSE, a, b, FALSE) : a, b \in BOOLEAN}

DupParents ==
    {p \in [Ids -> 0..MaxIds] :
        /\ \A n \in 1..DupNodes : p[n] < n
        /\ \A n \in Ids \ (1..DupNodes) : p[n] = World}

InitDup ==
    /\ nodes = 1..DupNodes
    /\ parent \in DupParents
    /\ name = [n \in Ids |-> NameSeq[n]]
    /\ ntype = [n \in Ids |-> kTransform]
    /\ nextId = DupNodes + 1
    /\ \E n \in nodes : dup = DuplicatorInit(ScPath(Scene, n))
    /\ pre = Graph(Scene)
    /\ last = NoCall
    /\ idag = None
    /\ dg = <<>>
    /\ visibility = <<>>
    /\ uvsets = <<>>
    /\ uvcurrent = None
    /\ xform = <<>>

DupUnchanged == UNCHANGED <<idag, dgVars, uvVars, xform>>

SetScene(sc) ==
    /\ nodes' = sc.nodes
    /\ parent' = sc.parent
    /\ name' = sc.name
    /\ ntype' = sc.ntype
    /\ nextId' = sc.nextId

\* The host has ids left for a copy of the source's subtree.
RoomToDuplicate ==
    SourceResolves(Scene, dup)
    => nextId + Cardinality(ScSubtree(Scene, as_mObject(Scene, dup.source_path))) - 1
          <= MaxIds

\* HierarchyDuplicator.destination_path setter, lines 110-112: the caller
\* configures the instance, before it is executed, with the path of a node
\* of the scene.
SetDestinationPath ==
    /\ last = NoCall
    /\ dup.result_mobj = NoNode
    /\ \E n \in nodes : dup' = [dup EXCEPT !.destination_path = ScPath(Scene, n)]
    /\ pre' = Graph(Scene)
    /\ UNCHANGED <<sceneVars, last>>
    /\ DupUnchanged

\* A caller runs duplicate().
CallDuplicate ==
    /\ last = NoCall
    /\ RoomToDuplicate
    /\ \E h \in DuplicateChoices :
          LET r == Duplicate(Scene, dup, h)
          IN /\ SetScene(r.sc)
             /\ dup' = r.d
             /\ last' = [op |-> "duplicate", status |-> r.status,
                         X |-> NoNode, newname |-> None]
    /\ pre' = Graph(Scene)
    /\ DupUnchanged

\* A caller runs duplicate_under_same_parent().
CallDuplicateUnderSameParent ==
    /\ last = NoCall
    /\ RoomToDuplicate
    /\ \E h \in SameParentChoices :
          LET r == DuplicateUnderSameParent(Scene, dup, h)
          IN /\ SetScene(r.sc)
             /\ dup' = r.d
             /\ last' = [op |-> "duplicate_under_same_parent", status |-> r.status,
                         X |-> IF SourceResolves(Scene, dup)
                               THEN SourceParent(Scene, dup) ELSE NoNode,
                         newname |-> None]
    /\ pre' = Graph(Scene)
    /\ DupUnchanged

RenameTargets == {"x"}

\* A caller runs rename(name).
CallRename ==
    /\ last = NoCall
    /\ \E newname \in RenameTargets, h \in RenameChoices :
          LET r == Rename(Scene, dup, newname, h)
          IN /\ SetScene(r.sc)
             /\ dup' = r.d
             /\ last' = [op |-> "rename", status |-> r.status, X |-> NoNode,
                         newname |-> newname]
    /\ pre' = Graph(Scene)
    /\ DupUnchanged

\* The user deletes a node of the scene, and what is under it.
UserDelete ==
    /\ last = NoCall
    /\ \E n \in nodes : SetScene(HostDelete(Scene, n))
    /\ pre' = Graph(Scene)'
    /\ UNCHANGED <<dup, last>>
    /\ DupUnchanged

\* The caller is done with the outcome of the last call.
DupReturn ==
    /\ last # NoCall
    /\ last' = NoCall
    /\ pre' = Graph(Scene)
    /\ UNCHANGED <<sceneVars, dup>>
    /\ DupUnchanged

NextDup ==
    \/ SetDestinationPath
    \/ CallDuplicate
    \/ CallDuplicateUnderSameParent
    \/ CallRename
    \/ UserDelete
    \/ DupReturn

SpecDup == InitDup /\ [][NextDup]_vars

\* --------------------------------------------- claims on the duplicator
\* C1: after duplicate_under_same_parent() completes on a node whose parent
\* is X, the parent of the new duplicate root is X, wherever the host's
\* duplicate put the copy.
C1_DuplicateIsUnderSourceParent ==
    (last.op = "duplicate_under_same_parent" /\ last.status = "ok")
    => parent[dup.result_mobj] = last.X

\* C2: a duplicate() or duplicate_under_same_parent() that fails leaves the
\* scene graph as it was before the call: no node deleted, none left behind.
C2_FailureLeavesGraphUnchanged ==
    ( /\ last.op \in {"duplicate", "duplicate_under_same_parent"}
      /\ last.status = "raised" )
    => Graph(Scene) = pre

\* C9: rename(name) fails before any duplication has run, and fails when the
\* duplicated root is no longer in the scene even if the source is; when it
\* succeeds it is the duplicated root that carries the name, and the source
\* keeps its own.
C9_RenameNeedsLiveDuplicate ==
    last.op = "rename"
    => /\ (dup.result_mobj = NoNode \/ dup.result_mobj \notin pre.nodes)
            => last.status = "raised"
       /\ last.status = "ok"
            => /\ name[dup.result_mobj] = last.newname
               /\ \A n \in pre.nodes \ {dup.result_mobj} : name[n] = pre.name[n]

\* --------------------------------------------- the parent-insertion helper
InsertIds == 1..(ParentNodes + MaxInserts)

Identity == "identity"
Origin == "origin"

\* What MFnTransform reads and writes of a transform: its local
\* transformation matrix and its two pivots.
Xform(m, sp, rp) == [matrix |-> m, scalePivot |-> sp, rotatePivot |-> rp]

\* A transform as MFnTransform.create leaves it.
DefaultXform == Xform(Identity, Origin, Origin)

XformValues ==
    {DefaultXform, Xform("moved", Origin, Origin), Xform("moved", "sp", "rp")}

\* A faulty variant: the new transform is always created at the scene root.
NewParentAtRoot(par) == World

\* create_parent_above, line 28: the node the new transform is created
\* under; kNullObj stands for the scene root.
NewParentUnder(par) == IF hasFn(par, kTransform) THEN par ELSE World

\* MDagModifier.renameNode is refused for a name a sibling carries.
NameTaken(sc, n, nm) ==
    \E c \in sc.nodes \ {n} : sc.parent[c] = sc.parent[n] /\ sc.name[c] = nm

\* create_parent_above, lines 22-54. fn is the node the function set mtrans
\* is attached to: mobj from line 22, the new transform from line 29
\* (MFnTransform.create attaches the function set to the node it creates,
\* which is why line 45 writes the new parent), mobj again from line 49.
\* The two setters of lines 40-43 are bound to mtrans and to the values read
\* at lines 37-38. The modifier's doIt can fail (h.doItFails), with its
\* reparent done or undone (h.reparented); create is not part of it.
create_parent_above(mobj, nm, h) ==
    IF ~hasFn(mobj, kTransform)
    THEN [status |-> "raised", sc |-> Scene, xform |-> xform, ret |-> NoNode]
    ELSE
    LET identity_matrix == xform[mobj].matrix                       \* line 23
        par == parent[mobj]                                         \* line 25
        node == NewParentUnder(par)                                 \* line 28
        new_parent == nextId                                        \* line 29
        created == [Scene EXCEPT
                      !.nodes = nodes \cup {new_parent},
                      !.parent[new_parent] = node,
                      !.ntype[new_parent] = kTransform,
                      !.name[new_parent] = FreshName(Scene, node),
                      !.nextId = nextId + 1]
        xf1 == [xform EXCEPT ![new_parent] = DefaultXform]
        fn1 == new_parent
        reparented == [created EXCEPT !.parent[mobj] = new_parent]  \* line 31
        clash == nm # None /\ NameTaken(reparented, new_parent, nm)
        renamed == IF nm # None                                  \* lines 33-34
                   THEN [reparented EXCEPT !.name[new_parent] = nm]
                   ELSE reparented
        scalePivot == xf1[fn1].scalePivot                           \* line 37
        rotatePivot == xf1[fn1].rotatePivot                         \* line 38
        xf2 == [xf1 EXCEPT                                      \* lines 45-47
                  ![fn1] = Xform(identity_matrix, scalePivot, rotatePivot)]
        fn2 == mobj                                                 \* line 49
        xf3 == [xf2 EXCEPT                                      \* lines 50-52
                  ![fn2] = Xform(Identity, scalePivot, rotatePivot)]
    IN IF h.doItFails \/ clash                                      \* line 35
       THEN [status |-> "raised",
             sc |-> IF h.reparented THEN reparented ELSE created,
             xform |-> xf1, ret |-> NoNode]
       ELSE [status |-> "ok", sc |-> renamed, xform |-> xf3,
             ret |-> new_parent]

InsertChoices ==
    {[doItFails |-> FALSE, reparented |-> TRUE],
     [doItFails |-> TRUE, reparented |-> FALSE],
     [doItFails |-> TRUE, reparented |-> TRUE]}

InsertNames == {None, "x"}

InsertParents ==
    {p \in [InsertIds -> 0..ParentNodes] :
        /\ \A n \in 1..ParentNodes : p[n] < n
        /\ \A n \in InsertIds \ (1..ParentNodes) : p[n] = World}

\* A node with children is a transform; a leaf is a transform or a mesh.
InsertTypes(p) ==
    {t \in [InsertIds -> {kTransform, kMesh}] :
        \A n \in InsertIds :
           (n > ParentNodes \/ \E c \in 1..ParentNodes : p[c] = n)
              => t[n] = kTransform}

InsertXforms(t) ==
    {x \in [InsertIds -> XformValues] :
        \A n \in InsertIds :
           (n > ParentNodes \/ t[n] # kTransform) => x[n] = DefaultXform}

InitInsert ==
    /\ nodes = 1..ParentNodes
    /\ parent \in InsertParents
    /\ ntype \in InsertTypes(parent)
    /\ xform \in InsertXforms(ntype)
    /\ name = [n \in InsertIds |-> NameSeq[n]]
    /\ nextId = ParentNodes + 1
    /\ pre = Graph(Scene)
    /\ last = NoCall
    /\ idag = None
    /\ dup = None
    /\ dg = <<>>
    /\ visibility = <<>>
    /\ uvsets = <<>>
    /\ uvcurrent = None

InsertUnchanged == UNCHANGED <<idag, dup, dgVars, uvVars>>

\* A caller runs create_parent_above(mobj, name) on a node of the scene.
CallCreateParentAbove ==
    /\ last = NoCall
    /\ nextId <= ParentNodes + MaxInserts
    /\ \E mobj \in nodes, nm \in InsertNames, h \in InsertChoices :
          LET r == create_parent_above(mobj, nm, h)
          IN /\ SetScene(r.sc)
             /\ xform' = r.xform
             /\ last' = [op |-> "create_parent_above", status |-> r.status,
                         mobj |-> mobj, ret |-> r.ret, was |-> xform[mobj]]
    /\ pre' = Graph(Scene)
    /\ InsertUnchanged

\* The caller is done with the outcome of the last call.
InsertReturn ==
    /\ last # NoCall
    /\ last' = NoCall
    /\ pre' = Graph(Scene)
    /\ UNCHANGED <<sceneVars, xform>>
    /\ InsertUnchanged

NextInsert ==
    \/ CallCreateParentAbove
    \/ InsertReturn

SpecInsert == InitInsert /\ [][NextInsert]_vars

\* ------------------------------------ claims on the parent-insertion helper
Inserted == last.op = "create_parent_above" /\ last.status = "ok"

\* C11: after create_parent_above(node) succeeds, node's parent is the newly
\* created transform, the new transform's parent is node's parent of before
\* the call when that parent is a transform and the scene root otherwise,
\* node's own children are the ones it had and no other node of the graph
\* has changed parent.
C11_ParentInsertedAbove ==
    Inserted
    => LET mobj == last.mobj
           new == last.ret
           was == pre.parent[mobj]
       IN /\ new \notin pre.nodes
          /\ nodes = pre.nodes \cup {new}
          /\ ntype[new] = kTransform
          /\ parent[mobj] = new
          /\ parent[new] = IF was # World /\ ntype[was] = kTransform
                           THEN was ELSE World
          /\ ChildSet(mobj) = {c \in pre.nodes : pre.parent[c] = mobj}
          /\ \A n \in pre.nodes \ {mobj} : parent[n] = pre.parent[n]

\* C11 witness: a parent was inserted above a node that has a child and
\* whose parent was a transform.
C11_Witness ==
    /\ Inserted
    /\ pre.parent[last.mobj] # World
    /\ ChildSet(last.mobj) # {}
    /\ parent[last.ret] = pre.parent[last.mobj]

\* C12: after create_parent_above(node) succeeds, the new parent's scale
\* pivot and rotate pivot are the ones node had before the call, the new
\* parent's transformation is node's local transformation matrix of before
\* the call, and node's own transformation is the identity.
C12_NewParentTakesNodeValues ==
    Inserted
    => /\ xform[last.ret].scalePivot = last.was.scalePivot
       /\ xform[last.ret].rotatePivot = last.was.rotatePivot
       /\ xform[last.ret].matrix = last.was.matrix
       /\ xform[last.mobj].matrix = Identity

====
